---- MODULE Spec2Model ----
(***************************************************************************)
(* Model of the simulation engine of src/app.js: the model registry, the   *)
(* RK4 integrator, the requestAnimationFrame-driven tick loop with its     *)
(* run / pause / reset / model-select handlers, the bounded history and    *)
(* the metric display; and of the block-diagram editor of the React page   *)
(* (src/unnamed): its connections, connect mode and node clicks.  The two  *)
(* pages share no state.                                                   *)
(*                                                                         *)
(* The numbers of the state, the parameters and the laws are modelled as   *)
(* a small fixed-point format: the integer n stands for n / Scale, every   *)
(* arithmetic operation rounds to the format, a result beyond NumMax       *)
(* overflows to an infinity, and NaN propagates as in IEEE arithmetic.     *)
(* The clock (time, step size, horizon) is kept in exact double            *)
(* precision, so that time += dt and time >= horizon come out as they do   *)
(* in the program.  The step count is an integer, exact up to              *)
(* MaxSafeInteger.                                                         *)
(***************************************************************************)
EXTENDS Integers, Sequences, FiniteSets, TLC

VARIABLES
  models,            \* the registry: per model id its parameters and initial state
  currentModel,      \* id of the active model (let currentModel)
  state,             \* let state
  time,              \* let time
  step,              \* let step
  running,           \* let running
  history,           \* let history
  rafQueue,          \* tick callbacks requested for the next animation frame
  frameBatch,        \* callbacks of the frame being run that have not run yet
  stepSizeInput,     \* Number(stepSizeInput.value)
  timeHorizonInput,  \* Number(timeHorizonInput.value)
  ctx,               \* whether the canvas 2d context exists
  canvasStatus,      \* canvasStatus.textContent
  energyMetricEl,    \* energyMetricEl.textContent
  elapsedTimeEl,     \* elapsedTimeEl.textContent
  stepCountEl,       \* stepCountEl.textContent
  pushLog,           \* history variable: every sample pushed since the last clear
  rkCall,            \* a direct call of rk4Step: its arguments and what it returned
  connections,       \* editor: useState(INITIAL_CONNECTIONS), the links in order
  selectedNode,      \* editor: useState(null), id of the node shown in the inspector
  connectMode,       \* editor: useState(false)
  connectStart,      \* editor: useState(null), id of the pending link source
  activity           \* editor: useState("Ready. ..."), the activity line

vars == <<models, currentModel, state, time, step, running, history, rafQueue,
          frameBatch, stepSizeInput, timeHorizonInput, ctx, canvasStatus,
          energyMetricEl, elapsedTimeEl, stepCountEl, pushLog, rkCall,
          connections, selectedNode, connectMode, connectStart, activity>>

\* the state of the block-diagram editor
studio == <<connections, selectedNode, connectMode, connectStart, activity>>

session == <<state, time, step, history>>

-----------------------------------------------------------------------------
(* Bounds of the model *)

Scale == 100
NumMax == 40000
MaxSafeInteger == 900
MaxStep == 2
MaxPending == 2
HistMaxStep == 803
MaxCalls == 2
MaxChain == 2
MaxConnections == 3
RunMaxStep == 110
LimbBits == 14
FracLimbs == 5

(* Program constants: the length the history is cut to, and the significant *)
(* bits of a Number (an IEEE 754 double)                                    *)
HistoryLimit == 800
SignificandBits == 53

-----------------------------------------------------------------------------
(* Numbers *)

PosInf == NumMax + 1
NegInf == -(NumMax + 1)
NaN == NumMax + 2

IsFinite(a) == a >= -NumMax /\ a <= NumMax
IsNaN(a) == a = NaN

Abs(a) == IF a < 0 THEN -a ELSE a
Sign(a) == IF a < 0 THEN -1 ELSE IF a > 0 THEN 1 ELSE 0

\* n tenths, and the integer n, in the number format
Tenths(n) == (n * Scale) \div 10
Num(n) == n * Scale

\* integer quotient rounded toward zero
Quot(n, d) == Sign(n) * Sign(d) * (Abs(n) \div Abs(d))

\* a finite result brought into the format: overflow gives an infinity
Norm(r) == IF r > NumMax THEN PosInf ELSE IF r < -NumMax THEN NegInf ELSE r

Neg(a) == IF IsNaN(a) THEN NaN ELSE -a

Add(a, b) ==
  IF IsNaN(a) \/ IsNaN(b) THEN NaN
  ELSE IF ~IsFinite(a) /\ ~IsFinite(b) THEN (IF a = b THEN a ELSE NaN)
  ELSE IF ~IsFinite(a) THEN a
  ELSE IF ~IsFinite(b) THEN b
  ELSE Norm(a + b)

Sub(a, b) == Add(a, Neg(b))

Mul(a, b) ==
  IF IsNaN(a) \/ IsNaN(b) THEN NaN
  ELSE IF ~IsFinite(a) \/ ~IsFinite(b)
    THEN (IF a = 0 \/ b = 0 THEN NaN
          ELSE IF Sign(a) * Sign(b) > 0 THEN PosInf ELSE NegInf)
  ELSE Norm(Quot(a * b, Scale))

Div(a, b) ==
  IF IsNaN(a) \/ IsNaN(b) THEN NaN
  ELSE IF ~IsFinite(a) /\ ~IsFinite(b) THEN NaN
  ELSE IF ~IsFinite(b) THEN 0
  ELSE IF b = 0
    THEN (IF a = 0 THEN NaN ELSE IF a > 0 THEN PosInf ELSE NegInf)
  ELSE IF ~IsFinite(a)
    THEN (IF Sign(a) * Sign(b) > 0 THEN PosInf ELSE NegInf)
  ELSE Norm(Quot(a * Scale, b))

\* a step count that advances by two
IncrementByTwo(n) == n + 2

\* n + 1 on a step count: exact up to the largest safe integer, where n + 1 = n
Increment(n) == IF n < MaxSafeInteger THEN n + 1 ELSE n

\* a >= b of JavaScript: false as soon as an operand is NaN
Geq(a, b) == ~IsNaN(a) /\ ~IsNaN(b) /\ a >= b

\* Math.sin to the precision of the format: the parabola 4x(pi-x)/pi^2 on
\* each half period
Pi == Tenths(31)
SinHalf(x) == Quot(4 * x * (Pi - x) * Scale, Pi * Pi)
Sin(a) ==
  IF ~IsFinite(a) THEN NaN
  ELSE LET r == a % (2 * Pi)
       IN  IF r <= Pi THEN SinHalf(r) ELSE -SinHalf(r - Pi)

-----------------------------------------------------------------------------
(* The clock.  time, and the step size and horizon read from the inputs,    *)
(* are kept as exact doubles, so that time += dt rounds as it does in the   *)
(* program: neg is the sign and mag the magnitude, its integer part         *)
(* followed by FracLimbs limbs of LimbBits fraction bits each.  A double    *)
(* goes into the arithmetic of the laws and to the display in the number    *)
(* format above (Approx).                                                   *)

LimbBase == 2^LimbBits
Limbs == FracLimbs + 1

RECURSIVE BitLen(_)
BitLen(n) == IF n = 0 THEN 0 ELSE 1 + BitLen(n \div 2)

\* magnitudes: limb 1 is the integer part, the last limb the lowest bits
MagZero == [i \in 1..Limbs |-> 0]

RECURSIVE CarryInto(_, _, _)
CarryInto(a, b, i) ==
  IF i = Limbs THEN 0 ELSE (a[i + 1] + b[i + 1] + CarryInto(a, b, i + 1)) \div LimbBase
MagAdd(a, b) ==
  [i \in 1..Limbs |->
     LET sum == a[i] + b[i] + CarryInto(a, b, i)
     IN  IF i = 1 THEN sum ELSE sum % LimbBase]

RECURSIVE BorrowFrom(_, _, _)
BorrowFrom(a, b, i) ==
  IF i = Limbs THEN 0
  ELSE IF a[i + 1] - b[i + 1] - BorrowFrom(a, b, i + 1) < 0 THEN 1 ELSE 0
MagSub(a, b) ==
  [i \in 1..Limbs |->
     LET diff == a[i] - b[i] - BorrowFrom(a, b, i)
     IN  IF i = 1 THEN diff ELSE diff % LimbBase]

MagLess(a, b) ==
  \E i \in 1..Limbs : a[i] < b[i] /\ \A j \in 1..(i - 1) : a[j] = b[j]

MagBitLen(m) ==
  IF m = MagZero THEN 0
  ELSE LET i == CHOOSE k \in 1..Limbs : m[k] # 0 /\ \A j \in 1..(k - 1) : m[j] = 0
       IN  BitLen(m[i]) + LimbBits * (Limbs - i)

\* the magnitude 2^n, n counted from the lowest bit of the last limb
MagBit(n) ==
  [i \in 1..Limbs |-> IF i = Limbs - (n \div LimbBits) THEN 2^(n % LimbBits) ELSE 0]

\* round to nearest, ties to even, at SignificandBits significant bits;
\* sticky: the exact value has nonzero bits below the last limb
MagRound(m, sticky) ==
  LET s == MagBitLen(m) - SignificandBits
      dropped(i) ==
        LET below == s - LimbBits * (Limbs - i)
        IN  IF below < 0 THEN 0 ELSE IF below > LimbBits /\ i > 1 THEN LimbBits ELSE below
      rem == [i \in 1..Limbs |-> m[i] % (2^dropped(i))]
      kept == [i \in 1..Limbs |-> m[i] - rem[i]]
      half == MagBit(s - 1)
      odd == kept[Limbs - (s \div LimbBits)] \div (2^(s % LimbBits)) % 2 = 1
      up == MagLess(half, rem) \/ (rem = half /\ (sticky \/ odd))
  IN  IF s <= 0 THEN m ELSE IF up THEN MagAdd(kept, MagBit(s)) ELSE kept

\* the doubles: 0, a + b and a >= b
DZero == [neg |-> FALSE, mag |-> MagZero]

DAdd(a, b) ==
  IF a.neg = b.neg THEN [neg |-> a.neg, mag |-> MagRound(MagAdd(a.mag, b.mag), FALSE)]
  ELSE IF a.mag = b.mag THEN DZero
  ELSE IF MagLess(a.mag, b.mag)
         THEN [neg |-> b.neg, mag |-> MagRound(MagSub(b.mag, a.mag), FALSE)]
         ELSE [neg |-> a.neg, mag |-> MagRound(MagSub(a.mag, b.mag), FALSE)]

DLess(a, b) ==
  IF a.neg # b.neg THEN a.neg
  ELSE IF a.neg THEN MagLess(b.mag, a.mag) ELSE MagLess(a.mag, b.mag)
DGeq(a, b) == ~DLess(a, b)

\* Number(text) for the decimal text of n in the number format: the double
\* nearest to n / Scale
RECURSIVE FracRem(_, _)
FracRem(n, k) == IF k = 0 THEN n % Scale ELSE (FracRem(n, k - 1) * LimbBase) % Scale
Number(n) ==
  LET abs == IF n < 0 THEN -n ELSE n
      exact == [i \in 1..Limbs |->
                  IF i = 1 THEN abs \div Scale
                  ELSE (FracRem(abs, i - 2) * LimbBase) \div Scale]
  IN  [neg |-> n < 0, mag |-> MagRound(exact, FracRem(abs, FracLimbs) # 0)]

\* a double in the number format, rounded to the nearest unit
RECURSIVE ScaledCarry(_, _)
ScaledCarry(m, i) ==
  IF i > Limbs THEN 0 ELSE (m[i] * Scale + ScaledCarry(m, i + 1)) \div LimbBase
Approx(d) ==
  LET whole == d.mag[1] * Scale + ScaledCarry(d.mag, 2)
      frac == (d.mag[2] * Scale + ScaledCarry(d.mag, 3)) % LimbBase
      rounded == IF 2 * frac >= LimbBase THEN whole + 1 ELSE whole
  IN  IF d.neg THEN -rounded ELSE rounded

-----------------------------------------------------------------------------
(* The registry of models *)

ModelIds == {"spring", "predator", "thermal"}

Param(v, lo, hi) == [value |-> Tenths(v), min |-> Tenths(lo), max |-> Tenths(hi)]

InitialModels ==
  [m \in ModelIds |->
     CASE m = "spring" ->
            [parameters |-> [mass      |-> Param(12, 2, 50),
                             stiffness |-> Param(120, 10, 400),
                             damping   |-> Param(6, 1, 30),
                             force     |-> Param(18, 0, 60)],
             state |-> [x |-> Tenths(10), v |-> 0]]
       [] m = "predator" ->
            [parameters |-> [alpha |-> Param(11, 1, 30),
                             beta  |-> Param(4, 1, 20),
                             delta |-> Param(3, 1, 20),
                             gamma |-> Param(9, 1, 30)],
             state |-> [prey |-> Tenths(14), predator |-> Tenths(8)]]
       [] m = "thermal" ->
            [parameters |-> [capA    |-> Param(60, 10, 120),
                             capB    |-> Param(45, 10, 120),
                             conduct |-> Param(16, 1, 50),
                             heater  |-> Param(32, 0, 80)],
             state |-> [tempA |-> Tenths(22), tempB |-> Tenths(11)]]]

derivatives(m, s, p, t) ==
  CASE m = "spring" ->
         LET drive == Mul(p.force, Sin(Mul(Tenths(11), t)))
             a == Div(Add(Sub(Mul(Neg(p.stiffness), s.x), Mul(p.damping, s.v)), drive),
                      p.mass)
         IN  [x |-> s.v, v |-> a]
    [] m = "predator" ->
         [prey     |-> Sub(Mul(p.alpha, s.prey), Mul(Mul(p.beta, s.prey), s.predator)),
          predator |-> Sub(Mul(Mul(p.delta, s.prey), s.predator),
                           Mul(p.gamma, s.predator))]
    [] m = "thermal" ->
         LET external == Add(Num(1), Mul(Tenths(6), Sin(Mul(Tenths(4), t))))
             flux == Mul(p.conduct, Sub(s.tempB, s.tempA))
         IN  [tempA |-> Div(Add(flux, Mul(p.heater, external)), p.capA),
              tempB |-> Div(Add(Neg(flux), Mul(Tenths(4), external)), p.capB)]

metric(m, s, p) ==
  CASE m = "spring" ->
         LET kinetic == Mul(Mul(Mul(Tenths(5), p.mass), s.v), s.v)
             potential == Mul(Mul(Mul(Tenths(5), p.stiffness), s.x), s.x)
         IN  Add(kinetic, potential)
    [] m = "predator" -> Add(s.prey, s.predator)
    [] m = "thermal" -> Div(Add(s.tempA, s.tempB), Num(2))

series(m, s) ==
  CASE m = "spring" -> [primary |-> s.x, secondary |-> s.v]
    [] m = "predator" -> [primary |-> s.prey, secondary |-> s.predator]
    [] m = "thermal" -> [primary |-> s.tempA, secondary |-> s.tempB]

-----------------------------------------------------------------------------
(* The integrator *)

addState(a, b) ==
  [key \in DOMAIN a |-> IF key \in DOMAIN b THEN Add(a[key], b[key]) ELSE NaN]

\* scaleState that adds the factor where it should multiply by it
scaleStateAdds(a, factor) == [key \in DOMAIN a |-> Add(a[key], factor)]

scaleState(a, factor) == [key \in DOMAIN a |-> Mul(a[key], factor)]

\* Derivative laws handed to rk4Step that break the contract of a law: for a
\* state with the fields x and v, one returns no v and one returns a field
\* more
BrokenLaws == {"dropsField", "addsField"}
brokenDerivatives(fn, s, p, t) ==
  CASE fn = "dropsField" -> [x |-> s.v]
    [] fn = "addsField" -> [x |-> s.v, v |-> Neg(s.x), w |-> Num(1)]

\* The law of a system at rest: an all-zero delta for every input
ZeroLaw == "zero"
zeroDerivatives(s) == [key \in DOMAIN s |-> 0]

\* derivativeFn(s, p, t), the law being named by its id
callDerivativeFn(fn, s, p, t) ==
  IF fn \in ModelIds THEN derivatives(fn, s, p, t)
  ELSE IF fn = ZeroLaw THEN zeroDerivatives(s)
  ELSE brokenDerivatives(fn, s, p, t)

\* rk4Step reading the time of the session instead of its argument t
rk4StepAtSessionTime(stateObj, params, t, dt, derivativeFn) ==
  LET now == Approx(time)
      half == Div(dt, Num(2))
      k1 == callDerivativeFn(derivativeFn, stateObj, params, now)
      k2 == callDerivativeFn(derivativeFn, addState(stateObj, scaleState(k1, half)),
                             params, Add(now, half))
      k3 == callDerivativeFn(derivativeFn, addState(stateObj, scaleState(k2, half)),
                             params, Add(now, half))
      k4 == callDerivativeFn(derivativeFn, addState(stateObj, scaleState(k3, dt)),
                             params, Add(now, dt))
      combined == addState(addState(k1, scaleState(k2, Num(2))),
                           addState(scaleState(k3, Num(2)), k4))
  IN  addState(stateObj, scaleState(combined, Div(dt, Num(6))))

\* derivativeFn is a derivative law, named by its id
rk4Step(stateObj, params, t, dt, derivativeFn) ==
  LET half == Div(dt, Num(2))
      k1 == callDerivativeFn(derivativeFn, stateObj, params, t)
      k2 == callDerivativeFn(derivativeFn, addState(stateObj, scaleState(k1, half)),
                             params, Add(t, half))
      k3 == callDerivativeFn(derivativeFn, addState(stateObj, scaleState(k2, half)),
                             params, Add(t, half))
      k4 == callDerivativeFn(derivativeFn, addState(stateObj, scaleState(k3, dt)),
                             params, Add(t, dt))
      combined == addState(addState(k1, scaleState(k2, Num(2))),
                           addState(scaleState(k3, Num(2)), k4))
  IN  addState(stateObj, scaleState(combined, Div(dt, Num(6))))

-----------------------------------------------------------------------------
(* Display helpers *)

\* Number.prototype.toFixed(digits): the value in units of 10^-digits, or the
\* name of the non-finite value
toFixed(a, digits) ==
  IF IsNaN(a) THEN [kind |-> "NaN", digits |-> 0, val |-> 0]
  ELSE IF a = PosInf THEN [kind |-> "Infinity", digits |-> 0, val |-> 0]
  ELSE IF a = NegInf THEN [kind |-> "-Infinity", digits |-> 0, val |-> 0]
  ELSE [kind |-> "fixed", digits |-> digits,
        val |-> Quot(a * (IF digits = 2 THEN 100 ELSE 10), Scale)]

getParams(mods, m) ==
  [key \in DOMAIN mods[m].parameters |-> mods[m].parameters[key].value]

\* the text updateMetric writes to energyMetricEl
updateMetric(mods, m, s) == toFixed(metric(m, s, getParams(mods, m)), 2)

\* drawPlot writes the status only when there is no canvas context
drawPlot(hasCtx, status) == IF hasCtx THEN status ELSE "unavailable"

\* the history variable pushLog: it records the first HistMaxStep pushes
logPush(log, sample) == IF Len(log) < HistMaxStep THEN Append(log, sample) ELSE log

\* historyPush that keeps the newest sample only
historyPushKeepsNewest(h, sample) == <<sample>>

\* historyPush with the shift forgotten
historyPushNoShift(h, sample) == Append(h, sample)

\* history.push(sample) followed by the shift that keeps at most HistoryLimit
historyPush(h, sample) ==
  LET pushed == Append(h, sample)
  IN  IF Len(pushed) > HistoryLimit THEN Tail(pushed) ELSE pushed

-----------------------------------------------------------------------------
(* Inputs *)

StepSizes == {Neg(Tenths(5)), 0, Tenths(5)}
Horizons == {Neg(Tenths(10)), 0, Tenths(10)}
\* the parameter the edits of the model are made to, and the values typed
EditKey(m) ==
  CASE m = "spring" -> "mass" [] m = "predator" -> "alpha" [] m = "thermal" -> "capA"
EditValues == {0}

RafEntry(isStale) == [stale |-> isStale]

-----------------------------------------------------------------------------
(* The block-diagram editor: its nodes and its state as first rendered.     *)
(* The components on the canvas are the four of INITIAL_COMPONENTS; their   *)
(* positions and parameters, the palette, pan and zoom take no part in the  *)
(* linking of nodes and are left out, as is the timestamp id of a link.     *)

Null == "null"
INITIAL_COMPONENTS == {"c1", "c2", "c3", "c4"}
INITIAL_CONNECTIONS ==
  <<[from |-> "c1", to |-> "c2"], [from |-> "c2", to |-> "c3"], [from |-> "c3", to |-> "c4"]>>

\* the useState initial values of App
StudioInit ==
  /\ connections = INITIAL_CONNECTIONS
  /\ selectedNode = Null
  /\ connectMode = FALSE
  /\ connectStart = Null
  /\ activity = "Ready. Drag components onto the canvas."

-----------------------------------------------------------------------------
(* Initial state: the module has run to its last line (resetSimulation) *)

\* with the step size and horizon inputs drawn from dts and horizons
InitWith(dts, horizons) ==
  /\ models = InitialModels
  /\ currentModel = "spring"
  /\ state = InitialModels["spring"].state
  /\ time = DZero
  /\ step = 0
  /\ running = FALSE
  /\ history = <<>>
  /\ pushLog = <<>>
  /\ rafQueue = <<>>
  /\ frameBatch = <<>>
  /\ stepSizeInput \in dts
  /\ timeHorizonInput \in horizons
  /\ ctx \in BOOLEAN
  /\ canvasStatus = drawPlot(ctx, "ready")
  /\ energyMetricEl = updateMetric(InitialModels, "spring", InitialModels["spring"].state)
  /\ elapsedTimeEl = toFixed(0, 1)
  /\ stepCountEl = 0

\* the application as loaded in the page: nothing calls rk4Step but tick
NoCall == [args |-> <<>>, results |-> <<>>, origin |-> <<>>, chain |-> 0]

Init == InitWith(StepSizes, Horizons) /\ rkCall = NoCall /\ StudioInit

-----------------------------------------------------------------------------
(* Handlers.  A click, change or input event is dispatched only between     *)
(* animation frames: the callbacks of one frame run back to back.           *)

BetweenFrames == frameBatch = <<>>

\* resetSimulation that forgets to clear the history
resetSimulationKeepsHistory(m) ==
  /\ state' = models[m].state
  /\ time' = DZero
  /\ step' = 0
  /\ running' = FALSE
  /\ elapsedTimeEl' = toFixed(0, 1)
  /\ stepCountEl' = 0
  /\ canvasStatus' = drawPlot(ctx, "ready")
  /\ energyMetricEl' = updateMetric(models, m, models[m].state)
  /\ rafQueue' = [i \in DOMAIN rafQueue |-> RafEntry(TRUE)]
  /\ UNCHANGED <<models, frameBatch, stepSizeInput, timeHorizonInput, ctx, rkCall, studio, history,
                 pushLog>>

\* resetSimulation with m the (possibly just selected) current model
resetSimulation(m) ==
  /\ state' = models[m].state
  /\ time' = DZero
  /\ step' = 0
  /\ history' = <<>>
  /\ pushLog' = <<>>
  /\ running' = FALSE
  /\ elapsedTimeEl' = toFixed(0, 1)
  /\ stepCountEl' = 0
  /\ canvasStatus' = drawPlot(ctx, "ready")
  /\ energyMetricEl' = updateMetric(models, m, models[m].state)
  \* the callbacks still queued were requested for the session that ends here
  /\ rafQueue' = [i \in DOMAIN rafQueue |-> RafEntry(TRUE)]
  /\ UNCHANGED <<models, frameBatch, stepSizeInput, timeHorizonInput, ctx, rkCall, studio>>

\* the run handler that sets the flag and requests no frame
RunClickForgetsTick ==
  /\ BetweenFrames
  /\ IF ~running
       THEN /\ running' = TRUE
            /\ canvasStatus' = "running"
       ELSE UNCHANGED <<running, canvasStatus>>
  /\ UNCHANGED <<models, currentModel, state, time, step, history, pushLog, rafQueue,
                 frameBatch, stepSizeInput, timeHorizonInput, ctx, rkCall, studio,
                 energyMetricEl, elapsedTimeEl, stepCountEl>>

RunClick ==
  /\ BetweenFrames
  /\ IF ~running
       THEN /\ Len(rafQueue) < MaxPending
            /\ running' = TRUE
            /\ canvasStatus' = "running"
            /\ rafQueue' = Append(rafQueue, RafEntry(FALSE))
       ELSE UNCHANGED <<running, canvasStatus, rafQueue>>
  /\ UNCHANGED <<models, currentModel, state, time, step, history, pushLog, frameBatch,
                 stepSizeInput, timeHorizonInput, ctx, rkCall, studio, energyMetricEl, elapsedTimeEl,
                 stepCountEl>>

\* the pause handler that writes the status line and leaves the flag set
PauseClickKeepsRunning ==
  /\ BetweenFrames
  /\ canvasStatus' = "paused"
  /\ UNCHANGED <<models, currentModel, state, time, step, running, history, pushLog,
                 rafQueue, frameBatch, stepSizeInput, timeHorizonInput, ctx, rkCall, studio,
                 energyMetricEl, elapsedTimeEl, stepCountEl>>

PauseClick ==
  /\ BetweenFrames
  /\ running' = FALSE
  /\ canvasStatus' = "paused"
  /\ UNCHANGED <<models, currentModel, state, time, step, history, pushLog, rafQueue,
                 frameBatch, stepSizeInput, timeHorizonInput, ctx, rkCall, studio, energyMetricEl,
                 elapsedTimeEl, stepCountEl>>

ResetClick ==
  /\ BetweenFrames
  /\ resetSimulation(currentModel)
  /\ UNCHANGED currentModel

\* the change handler that resets before it reads the selection
ModelChangeResetsOld(m) ==
  /\ BetweenFrames
  /\ m # currentModel
  /\ currentModel' = m
  /\ resetSimulation(currentModel)

ModelChange(m) ==
  /\ BetweenFrames
  /\ m # currentModel
  /\ currentModel' = m
  /\ resetSimulation(m)

\* the input handler that also stops the run
ParamInputStopsRun(key, value) ==
  /\ BetweenFrames
  /\ key \in DOMAIN models[currentModel].parameters
  /\ models' = [models EXCEPT ![currentModel].parameters[key].value = value]
  /\ energyMetricEl' = updateMetric(models', currentModel, state)
  /\ running' = FALSE
  /\ UNCHANGED <<currentModel, state, time, step, history, pushLog, rafQueue,
                 frameBatch, stepSizeInput, timeHorizonInput, ctx, rkCall, studio, canvasStatus,
                 elapsedTimeEl, stepCountEl>>

\* the input handler that stores the value and leaves the metric as shown
ParamInputKeepsMetric(key, value) ==
  /\ BetweenFrames
  /\ key \in DOMAIN models[currentModel].parameters
  /\ models' = [models EXCEPT ![currentModel].parameters[key].value = value]
  /\ UNCHANGED <<currentModel, state, time, step, running, history, pushLog, rafQueue,
                 frameBatch, stepSizeInput, timeHorizonInput, ctx, rkCall, studio, canvasStatus,
                 energyMetricEl, elapsedTimeEl, stepCountEl>>

ParamInput(key, value) ==
  /\ BetweenFrames
  /\ key \in DOMAIN models[currentModel].parameters
  /\ models' = [models EXCEPT ![currentModel].parameters[key].value = value]
  /\ energyMetricEl' = updateMetric(models', currentModel, state)
  /\ UNCHANGED <<currentModel, state, time, step, running, history, pushLog, rafQueue,
                 frameBatch, stepSizeInput, timeHorizonInput, ctx, rkCall, studio, canvasStatus,
                 elapsedTimeEl, stepCountEl>>

StepSizeEdit(v) ==
  /\ BetweenFrames
  /\ stepSizeInput' = v
  /\ UNCHANGED <<models, currentModel, state, time, step, running, history, pushLog,
                 rafQueue, frameBatch, timeHorizonInput, ctx, rkCall, studio, canvasStatus,
                 energyMetricEl, elapsedTimeEl, stepCountEl>>

TimeHorizonEdit(v) ==
  /\ BetweenFrames
  /\ timeHorizonInput' = v
  /\ UNCHANGED <<models, currentModel, state, time, step, running, history, pushLog,
                 rafQueue, frameBatch, stepSizeInput, ctx, rkCall, studio, canvasStatus,
                 energyMetricEl, elapsedTimeEl, stepCountEl>>

\* the browser starts a frame: the callbacks requested so far are its batch
AnimationFrame ==
  /\ BetweenFrames
  /\ rafQueue # <<>>
  /\ frameBatch' = rafQueue
  /\ rafQueue' = <<>>
  /\ UNCHANGED <<models, currentModel, state, time, step, running, history, pushLog,
                 stepSizeInput, timeHorizonInput, ctx, rkCall, studio, canvasStatus, energyMetricEl,
                 elapsedTimeEl, stepCountEl>>

\* the three outcomes of one call of tick
TickSkips == ~running
\* the horizon test with its operands exchanged
TickCompletesSwapped == running /\ DGeq(Number(timeHorizonInput), time)
\* time >= horizon
AtHorizon == DGeq(time, Number(timeHorizonInput))
TickCompletes == running /\ AtHorizon
TickExecutes == running /\ ~AtHorizon

\* tick that returns without a step but requests the next frame all the same
tickSkipReschedules ==
  /\ rafQueue' = Append(rafQueue, RafEntry(FALSE))
  /\ UNCHANGED <<state, time, step, running, history, pushLog, canvasStatus,
                 energyMetricEl, elapsedTimeEl, stepCountEl>>

\* tick returning at once: the session is not running
tickSkip ==
  UNCHANGED <<state, time, step, running, history, pushLog, rafQueue, canvasStatus,
              energyMetricEl, elapsedTimeEl, stepCountEl>>

\* tickComplete that still requests the next frame
tickCompleteReschedules ==
  /\ running' = FALSE
  /\ canvasStatus' = "complete"
  /\ rafQueue' = Append(rafQueue, RafEntry(FALSE))
  /\ UNCHANGED <<state, time, step, history, pushLog, energyMetricEl, elapsedTimeEl,
                 stepCountEl>>

\* tick at or beyond the horizon: the run is over and nothing is requested
tickComplete ==
  /\ running' = FALSE
  /\ canvasStatus' = "complete"
  /\ UNCHANGED <<state, time, step, history, pushLog, rafQueue, energyMetricEl,
                 elapsedTimeEl, stepCountEl>>

\* tickExecute integrating with the parameter values the model declares
\* instead of the values stored now
tickExecuteDeclaredParams ==
  /\ LET dt == stepSizeInput
         params == getParams(InitialModels, currentModel)
     IN  /\ state' = rk4Step(state, params, Approx(time), dt, currentModel)
         /\ time' = DAdd(time, Number(dt))
  /\ step' = Increment(step)
  /\ LET sample == [t |-> time'] @@ series(currentModel, state')
     IN  /\ history' = historyPush(history, sample)
         /\ pushLog' = logPush(pushLog, sample)
  /\ elapsedTimeEl' = toFixed(Approx(time'), 2)
  /\ stepCountEl' = step'
  /\ energyMetricEl' = updateMetric(models, currentModel, state')
  /\ canvasStatus' = drawPlot(ctx, canvasStatus)
  /\ rafQueue' = Append(rafQueue, RafEntry(FALSE))
  /\ UNCHANGED running

\* tick taking one integration step and requesting the next frame
tickExecute ==
  /\ LET dt == stepSizeInput
         params == getParams(models, currentModel)
     IN  /\ state' = rk4Step(state, params, Approx(time), dt, currentModel)
         /\ time' = DAdd(time, Number(dt))
  /\ step' = Increment(step)
  /\ LET sample == [t |-> time'] @@ series(currentModel, state')
     IN  /\ history' = historyPush(history, sample)
         /\ pushLog' = logPush(pushLog, sample)
  /\ elapsedTimeEl' = toFixed(Approx(time'), 2)
  /\ stepCountEl' = step'
  /\ energyMetricEl' = updateMetric(models, currentModel, state')
  /\ canvasStatus' = drawPlot(ctx, canvasStatus)
  /\ rafQueue' = Append(rafQueue, RafEntry(FALSE))
  /\ UNCHANGED running

\* one call of tick, the next callback of the running frame; maxStep bounds
\* the step count a session is followed to
tick(maxStep) ==
  /\ frameBatch # <<>>
  /\ frameBatch' = Tail(frameBatch)
  /\ IF TickSkips THEN tickSkip
     ELSE IF TickCompletes THEN tickComplete
     ELSE step < maxStep /\ tickExecute
  /\ UNCHANGED <<models, currentModel, stepSizeInput, timeHorizonInput, ctx, rkCall, studio>>

Tick == tick(MaxStep)

Next ==
  \/ RunClick
  \/ PauseClick
  \/ ResetClick
  \/ \E m \in ModelIds : ModelChange(m)
  \/ \E v \in EditValues : ParamInput(EditKey(currentModel), v)
  \/ \E v \in StepSizes : StepSizeEdit(v)
  \/ \E v \in Horizons : TimeHorizonEdit(v)
  \/ AnimationFrame
  \/ Tick

Spec == Init /\ [][Next]_vars

-----------------------------------------------------------------------------
(* A single uninterrupted run: only run clicks, frames and ticks, and the   *)
(* browser keeps delivering animation frames and running their callbacks.   *)

\* no bound on the steps: the numbers themselves are finite
FairTick == tick(MaxSafeInteger + 1)

\* a step of the model that is one call of tick: only tick shortens the batch
TickFires == frameBatch # <<>> /\ frameBatch' = Tail(frameBatch)

FairNext ==
  \/ RunClick
  \/ AnimationFrame
  \/ FairTick

\* the step sizes of the runs followed to their end: a degenerate and a regular one
FairStepSizes == {0, Tenths(5)}
FairInit == InitWith(FairStepSizes, Horizons) /\ rkCall = NoCall /\ StudioInit

FairSpec == FairInit /\ [][FairNext]_vars /\ WF_vars(AnimationFrame) /\ WF_frameBatch(TickFires)

-----------------------------------------------------------------------------
(* Long runs of the default model, long enough to overflow the history.     *)

\* on a page whose canvas has a 2d context
HistInit == InitWith({Tenths(1)}, {NumMax}) /\ ctx /\ rkCall = NoCall /\ StudioInit

HistTick == tick(HistMaxStep)

HistNext ==
  \/ RunClick
  \/ PauseClick
  \/ ResetClick
  \/ AnimationFrame
  \/ HistTick

HistSpec == HistInit /\ [][HistNext]_vars

-----------------------------------------------------------------------------
(* Uninterrupted runs to completion with a constant step size that divides  *)
(* the horizon: 0.05, 0.1 and 0.5 with the horizons 1 and 5.                *)

RunStepSizes == {Tenths(1) \div 2, Tenths(1), Tenths(5)}
RunHorizons == {Tenths(10), Tenths(50)}
RunInit == InitWith(RunStepSizes, RunHorizons) /\ rkCall = NoCall /\ StudioInit

RunTick == tick(RunMaxStep)

RunNext ==
  \/ RunClick
  \/ AnimationFrame
  \/ RunTick

RunSpec == RunInit /\ [][RunNext]_vars

-----------------------------------------------------------------------------
(* rk4Step called directly, between the handlers of a running page, with    *)
(* registered laws, the zero law and broken derivative laws.  The functions *)
(* under rk4Step hold no throw statement and read a field a delta lacks as  *)
(* undefined, so every call returns a state.  rkCall holds the arguments of *)
(* the call, the states returned for them, the state the caller started     *)
(* from (origin) and the number of steps it has chained since (chain).      *)

\* the states and parameter snapshots a law is called with
StatesFor(fn) ==
  LET declared == InitialModels[IF fn \in ModelIds THEN fn ELSE "spring"].state
  IN  {declared, scaleState(declared, Num(2))}
ParamsFor(fn) == getParams(InitialModels, IF fn \in ModelIds THEN fn ELSE "spring")
CallTimes == {0, Tenths(5)}
\* dt of a direct call: any Number, Infinity included
CallStepSizes == StepSizes \cup {PosInf}

CallArgs ==
  UNION {{[stateObj |-> s, params |-> ParamsFor(fn), t |-> t, dt |-> dt,
           derivativeFn |-> fn] :
            s \in StatesFor(fn), t \in CallTimes, dt \in CallStepSizes} :
         fn \in ModelIds \cup BrokenLaws \cup {ZeroLaw}}

\* the caller starts from the arguments a
FirstCall(a) == [args |-> a, results |-> <<>>, origin |-> a.stateObj, chain |-> 0]

\* the caller turns to another tuple of arguments
NewCall(a) ==
  /\ BetweenFrames
  /\ a # rkCall.args
  /\ rkCall' = FirstCall(a)
  /\ UNCHANGED <<models, currentModel, state, time, step, running, history, pushLog,
                 rafQueue, frameBatch, stepSizeInput, timeHorizonInput, ctx,
                 canvasStatus, energyMetricEl, elapsedTimeEl, stepCountEl, studio>>

\* one call rk4Step(stateObj, params, t, dt, derivativeFn); the caller keeps
\* what it returned
StepCall ==
  /\ BetweenFrames
  /\ Len(rkCall.results) < MaxCalls
  /\ LET a == rkCall.args
     IN  rkCall' = [rkCall EXCEPT !.results =
                     Append(@, rk4Step(a.stateObj, a.params, a.t, a.dt, a.derivativeFn))]
  /\ UNCHANGED <<models, currentModel, state, time, step, running, history, pushLog,
                 rafQueue, frameBatch, stepSizeInput, timeHorizonInput, ctx,
                 canvasStatus, energyMetricEl, elapsedTimeEl, stepCountEl, studio>>

\* repeated steps: the caller passes the state returned last, at t + dt, to
\* the next call
StepAgain ==
  /\ BetweenFrames
  /\ rkCall.results # <<>>
  /\ rkCall.chain < MaxChain
  /\ LET a == rkCall.args
     IN  rkCall' = [rkCall EXCEPT
                     !.args = [a EXCEPT !.stateObj = rkCall.results[Len(rkCall.results)],
                                        !.t = Add(a.t, a.dt)],
                     !.results = <<>>,
                     !.chain = @ + 1]
  /\ UNCHANGED <<models, currentModel, state, time, step, running, history, pushLog,
                 rafQueue, frameBatch, stepSizeInput, timeHorizonInput, ctx,
                 canvasStatus, energyMetricEl, elapsedTimeEl, stepCountEl, studio>>

StepInit ==
  /\ InitWith({Tenths(5)}, {Tenths(10)})
  /\ rkCall \in {FirstCall(a) : a \in CallArgs}
  /\ StudioInit

StepNext ==
  \/ \E a \in CallArgs : NewCall(a)
  \/ StepCall
  \/ StepAgain
  \/ RunClick
  \/ PauseClick
  \/ AnimationFrame
  \/ Tick

StepSpec == StepInit /\ [][StepNext]_vars

-----------------------------------------------------------------------------
(* The block-diagram editor.  React renders after every click, so each      *)
(* handler reads the state the previous one left.                           *)

\* handleNodeClick that links without comparing the node with the source
handleNodeClickNoCancel(nodeId) ==
  IF ~connectMode
    THEN UNCHANGED <<connections, connectStart, activity>>
  ELSE IF connectStart = Null
    THEN /\ connectStart' = nodeId
         /\ activity' = "Select the destination component to complete the link."
         /\ UNCHANGED connections
  ELSE /\ Len(connections) < MaxConnections
       /\ connections' = Append(connections, [from |-> connectStart, to |-> nodeId])
       /\ connectStart' = Null
       /\ activity' = "Connection created."

handleNodeClick(nodeId) ==
  IF ~connectMode
    THEN UNCHANGED <<connections, connectStart, activity>>
  ELSE IF connectStart = Null
    THEN /\ connectStart' = nodeId
         /\ activity' = "Select the destination component to complete the link."
         /\ UNCHANGED connections
  ELSE IF connectStart = nodeId
    THEN /\ connectStart' = Null
         /\ activity' = "Connection canceled."
         /\ UNCHANGED connections
  ELSE /\ Len(connections) < MaxConnections
       /\ connections' = Append(connections, [from |-> connectStart, to |-> nodeId])
       /\ connectStart' = Null
       /\ activity' = "Connection created."

handleSelectNode(nodeId) == selectedNode' = nodeId

\* the variables of the simulation page
simulation ==
  <<models, currentModel, state, time, step, running, history, rafQueue, frameBatch,
    stepSizeInput, timeHorizonInput, ctx, canvasStatus, energyMetricEl, elapsedTimeEl,
    stepCountEl, pushLog, rkCall>>

\* onClick of a node card
NodeClick(nodeId) ==
  /\ handleNodeClick(nodeId)
  /\ handleSelectNode(nodeId)
  /\ UNCHANGED <<connectMode, simulation>>

\* toggleConnectMode that leaves the pending source in place
ToggleConnectModeKeepsStart ==
  /\ connectMode' = ~connectMode
  /\ activity' = IF connectMode' THEN "Connection mode enabled. Click two components to link."
                                 ELSE "Connection mode off."
  /\ UNCHANGED <<connections, selectedNode, connectStart, simulation>>

\* toggleConnectMode, the click on the Connect Nodes / Exit Connect button
ToggleConnectMode ==
  /\ connectMode' = ~connectMode
  /\ activity' = IF connectMode' THEN "Connection mode enabled. Click two components to link."
                                 ELSE "Connection mode off."
  /\ connectStart' = Null
  /\ UNCHANGED <<connections, selectedNode, simulation>>

\* clearConnections, the click on the Clear Links button
ClearConnections ==
  /\ connections' = <<>>
  /\ activity' = "All connections cleared."
  /\ UNCHANGED <<selectedNode, connectMode, connectStart, simulation>>

\* the editor page: the simulation page is not part of it
StudioPageInit ==
  /\ InitWith({Tenths(5)}, {Tenths(10)})
  /\ ctx
  /\ rkCall = NoCall
  /\ StudioInit

StudioNext ==
  \/ \E nodeId \in INITIAL_COMPONENTS : NodeClick(nodeId)
  \/ ToggleConnectMode
  \/ ClearConnections

StudioSpec == StudioPageInit /\ [][StudioNext]_vars

-----------------------------------------------------------------------------
(* Derived notions used by the properties *)

\* number of tick callbacks requested and not yet run
Pending == Len(rafQueue) + Len(frameBatch)

\* the callback about to run was requested before the last reset / model change
StaleTickFires == TickFires /\ Head(frameBatch).stale

\* the scheduler status, read off the running flag and the status line
Status ==
  IF running THEN "Running"
  ELSE IF canvasStatus = "paused" THEN "Paused"
  ELSE IF canvasStatus = "complete" THEN "Completed"
  ELSE "Idle"

-----------------------------------------------------------------------------
(* Properties *)

\* C1: at most one tick callback is pending at any time, whatever the
\* sequence of run, pause, reset, model change and tick events.
C1_AtMostOneTickPending == Pending <= 1

\* C2: a tick requested before a reset or a model change changes none of
\* state, time, step and history of the session that the reset created.
C2_StaleTickIsNoOp == [][StaleTickFires => UNCHANGED session]_vars

\* C3: a reset, from any status and after any ticks and parameter edits,
\* yields time 0, step 0, the initial state of the active model, an empty
\* history and the Idle status.
AfterReset ==
  /\ time = DZero
  /\ step = 0
  /\ state = InitialModels[currentModel].state
  /\ history = <<>>
  /\ ~running
  /\ Status = "Idle"
C3_ResetReinitialises == [][ResetClick => AfterReset']_vars
\* a reset has acted on a session that had a tick pending, after a parameter edit
C3_Witness ==
  /\ AfterReset
  /\ models # InitialModels
  /\ \E i \in DOMAIN rafQueue : rafQueue[i].stale

\* C4: with dt <= 0 or horizon <= 0 a tick of a running session executes no
\* integration step: it leaves state, time, step and history unchanged and
\* ends the run.
Degenerate == stepSizeInput <= 0 \/ timeHorizonInput <= 0
C4_DegenerateRunsNoStep ==
  [][(TickFires /\ running /\ Degenerate) => (UNCHANGED session /\ ~running')]_vars

\* C5: under fair delivery of frames, with no pause, reset, model change or
\* configuration change, a running session eventually is Completed with no
\* tick pending, for every dt and horizon.
C5_RunTerminates == running ~> (Status = "Completed" /\ Pending = 0)

\* C6: the history holds at most HistoryLimit samples, and they are the
\* most recently pushed samples since the last clear, in push order.
LastOf(seq, n) ==
  IF Len(seq) <= n THEN seq ELSE SubSeq(seq, Len(seq) - n + 1, Len(seq))
C6_HistoryIsLastPushed ==
  /\ Len(history) <= HistoryLimit
  /\ history = LastOf(pushLog, HistoryLimit)
\* more samples have been pushed than the history keeps
C6_Witness == Len(pushLog) > HistoryLimit /\ Len(history) = HistoryLimit

\* C7: pause leaves state, time, step and history as they were, and while
\* the session is paused no tick changes any of them.
C7_PausePreserves ==
  [][/\ PauseClick => UNCHANGED session
     /\ (TickFires /\ canvasStatus = "paused") => UNCHANGED session]_vars
\* a tick has fired, and requested nothing, on a session paused after a step
C7_Witness == canvasStatus = "paused" /\ step > 0 /\ Pending = 0

\* C8: run changes none of state, time, step and history, a tick that
\* changes step adds exactly one to it, and time and step go back to zero
\* only through a reset or a model change.
C8_ResumeContinues ==
  [][/\ RunClick => UNCHANGED session
     /\ TickFires => (step' = step \/ step' = step + 1)
     /\ ((time # DZero /\ time' = DZero) \/ (step # 0 /\ step' = 0))
          => (ResetClick \/ \E m \in ModelIds : ModelChange(m))]_vars

\* C9: the status moves only along Idle -> Running, Running -> Paused,
\* Paused -> Running, Running -> Completed (only with time >= horizon) and
\* any status -> Idle by a reset or a model change.
IsReset == ResetClick \/ \E m \in ModelIds : ModelChange(m)
SpecEdge(from, to) ==
  \/ from = "Idle" /\ to = "Running"
  \/ from = "Running" /\ to = "Paused"
  \/ from = "Paused" /\ to = "Running"
  \/ from = "Running" /\ to = "Completed" /\ AtHorizon
C9_StatusEdges ==
  [][Status' # Status => (SpecEdge(Status, Status') \/ (IsReset /\ Status' = "Idle"))]_vars
\* C9 as amended: also Completed -> Running by run, and Idle -> Paused and
\* Completed -> Paused by pause.
CodeEdge(from, to) ==
  \/ SpecEdge(from, to)
  \/ from = "Completed" /\ to = "Running"
  \/ from \in {"Idle", "Completed"} /\ to = "Paused"
C9_StatusEdgesAmended ==
  [][Status' # Status =>
       \/ IsReset /\ Status' = "Idle"
       \/ /\ CodeEdge(Status, Status')
          /\ Status' = "Running" => RunClick
          /\ Status' = "Paused" => PauseClick
          /\ Status' = "Completed" => TickFires]_vars
\* a run has completed at its horizon after executing steps
C9_Witness == Status = "Completed" /\ step > 0 /\ AtHorizon

\* C10: a tick of a running session with time >= horizon makes the session
\* Completed, requests no further tick and changes none of state, time, step
\* and history.
C10_TickAtHorizonCompletes ==
  [][(TickFires /\ running /\ AtHorizon)
       => (Status' = "Completed" /\ rafQueue' = rafQueue /\ UNCHANGED session)]_vars
\* a session that completed after executing steps, with nothing pending
C10_Witness == Status = "Completed" /\ step > 0 /\ Pending = 0 /\ history # <<>>

\* C11: a switch of the active model to model m leaves, in one step, the
\* status Idle, time 0, step 0, an empty history and a state whose fields are
\* exactly the fields m declares, with the initial values of m.
AfterSwitch(m) ==
  /\ currentModel = m
  /\ Status = "Idle"
  /\ time = DZero
  /\ step = 0
  /\ history = <<>>
  /\ DOMAIN state = DOMAIN InitialModels[m].state
  /\ state = InitialModels[m].state
C11_SwitchReplacesSession ==
  [][\A m \in ModelIds : ModelChange(m) => AfterSwitch(m)']_vars
\* a switch has acted on a session that had a tick pending
C11_Witness ==
  /\ currentModel # "spring"
  /\ AfterSwitch(currentModel)
  /\ \E i \in DOMAIN rafQueue : rafQueue[i].stale

\* C12: in every reachable state each stored parameter value of the active
\* model lies within the declared minimum and maximum of the parameter.
WithinBounds(param) == Geq(param.value, param.min) /\ Geq(param.max, param.value)
C12_ParamsWithinBounds ==
  \A key \in DOMAIN models[currentModel].parameters :
    WithinBounds(models[currentModel].parameters[key])

\* C13: every executed tick integrates with the parameter values stored at
\* that moment, so an edit made while the session is running or paused acts
\* on the very next executed tick, without a restart.
StoredParams == [key \in DOMAIN models[currentModel].parameters |->
                   models[currentModel].parameters[key].value]
C13_TickUsesLatestParams ==
  [][(TickFires /\ TickExecutes) =>
       state' = rk4Step(state, StoredParams, Approx(time), stepSizeInput,
                       currentModel)]_vars
\* the first step was taken with the declared values, the second one with an
\* edited value, and the edit made a difference
C13_Witness ==
  /\ step = 2
  /\ stepSizeInput > 0
  /\ Len(history) = 2
  /\ LET m == currentModel
         dt == stepSizeInput
         declared == getParams(InitialModels, m)
         s1 == rk4Step(InitialModels[m].state, declared, 0, dt, m)
     IN  /\ history[1] = [t |-> Number(dt)] @@ series(m, s1)
         /\ StoredParams # declared
         /\ state = rk4Step(s1, StoredParams, dt, dt, m)
         /\ state # rk4Step(s1, declared, dt, dt, m)

\* C14: in every reachable state, so after every tick, parameter edit, reset
\* and model change, the metric shown is the metric law of the active model
\* applied to the current state and the parameter values stored now.
C14_MetricNeverLags ==
  energyMetricEl = toFixed(metric(currentModel, state, StoredParams), 2)
\* steps have been taken and a later edit has changed the finite metric shown
C14_Witness ==
  /\ step > 0
  /\ DLess(DZero, time)
  /\ energyMetricEl.kind = "fixed"
  /\ energyMetricEl = updateMetric(models, currentModel, state)
  /\ energyMetricEl # updateMetric(InitialModels, currentModel, state)

\* C15: no sample holding a non-finite value is ever in the history, no
\* non-finite metric is ever shown, and a session whose state holds a
\* non-finite value is not running.
FiniteRecord(r) == \A key \in DOMAIN r : IsFinite(r[key])
FiniteSample(sample) == IsFinite(sample.primary) /\ IsFinite(sample.secondary)
C15_NonFiniteNeverSurfaces ==
  /\ \A i \in DOMAIN history : FiniteSample(history[i])
  /\ energyMetricEl.kind = "fixed"
  /\ ~FiniteRecord(state) => ~running

\* C16: a call of rk4Step whose derivative law returns a delta with a key
\* set other than the key set of the state does not return a next state.
DeltaKeysMatch(a) ==
  DOMAIN callDerivativeFn(a.derivativeFn, a.stateObj, a.params, a.t) = DOMAIN a.stateObj
C16_KeyMismatchFails == rkCall.results # <<>> => DeltaKeysMatch(rkCall.args)

\* C17: in every reachable state the elapsed time and the step count are
\* not negative, whatever step size and horizon are configured.
C17_TimeAndStepNonNegative == DGeq(time, DZero) /\ step >= 0

\* C18: with a step size dt > 0 and a horizon > 0 that is an exact multiple
\* of dt, a completed run has executed exactly horizon / dt steps: step is
\* horizon / dt, time is the horizon and the history holds
\* min(horizon / dt, HistoryLimit) samples.
Min(a, b) == IF a < b THEN a ELSE b
DividesHorizon ==
  /\ stepSizeInput > 0
  /\ timeHorizonInput > 0
  /\ timeHorizonInput % stepSizeInput = 0
C18_RunExecutesHorizonOverDt ==
  (Status = "Completed" /\ DividesHorizon) =>
    /\ step = timeHorizonInput \div stepSizeInput
    /\ time = Number(timeHorizonInput)
    /\ Len(history) = Min(timeHorizonInput \div stepSizeInput, HistoryLimit)

\* C19: no sequence of parameter edits, ticks, resets and model changes
\* alters a registered model: its initial state, the names of its state
\* fields and its parameter entries (value, min, max) stay as declared.
C19_RegistryImmutable == models = InitialModels

\* C20: a call of rk4Step leaves its arguments, the input state among them,
\* as they were, changes none of state, time, step, history and running, and
\* returns what every earlier call with the same arguments returned,
\* whatever the session did in between.
StepReturns == Len(rkCall'.results) = Len(rkCall.results) + 1
ZeroLawKeepsState ==
  /\ rkCall.args.stateObj = rkCall.origin
  /\ \A i \in DOMAIN rkCall.results : rkCall.results[i] = rkCall.origin

\* C21: with a derivative law that returns an all-zero delta for every
\* input, every step of a chain of repeated steps returns the state the
\* chain started from, field by field, for every finite step size dt.
C21_ZeroLawFixedPoint ==
  (rkCall.args.derivativeFn = ZeroLaw /\ IsFinite(rkCall.args.dt)) => ZeroLawKeepsState
\* C21 as stated: the same for any dt, the non-finite Numbers included
C21_ZeroLawFixedPointAnyDt ==
  rkCall.args.derivativeFn = ZeroLaw => ZeroLawKeepsState
\* the last step of a chain of steps with a nonzero finite step size has
\* returned
C21_Witness ==
  /\ rkCall.args.derivativeFn = ZeroLaw
  /\ rkCall.args.dt # 0
  /\ IsFinite(rkCall.args.dt)
  /\ rkCall.chain = MaxChain
  /\ rkCall.results # <<>>
  /\ \E key \in DOMAIN rkCall.origin : rkCall.origin[key] # 0

\* the history after sample is pushed and the buffer cut to its limit
Pushed(sample) ==
  LET appended == Append(history, sample)
  IN  IF Len(appended) > HistoryLimit THEN Tail(appended) ELSE appended

\* C22: a tick that fires while Running with time < horizon advances the
\* session by exactly one integration step: the state is the integrator's
\* result for the stored parameters, time grows by dt, step by 1, one sample
\* is appended that carries the new time and the series projection of the
\* new state, and exactly one next tick is requested.
C22_TickAdvancesOneStep ==
  [][(TickFires /\ running /\ DLess(time, Number(timeHorizonInput))) =>
       /\ state' = rk4Step(state, StoredParams, Approx(time), stepSizeInput,
                           currentModel)
       /\ time' = DAdd(time, Number(stepSizeInput))
       /\ step' = step + 1
       /\ history' = Pushed([t |-> time'] @@ series(currentModel, state'))
       /\ rafQueue' = Append(rafQueue, RafEntry(FALSE))
       /\ running']_vars
\* a run with a positive step size has taken a step after a parameter edit
C22_Witness ==
  /\ running
  /\ step >= 1
  /\ stepSizeInput > 0
  /\ history # <<>>
  /\ history[Len(history)].t = time
  /\ rafQueue # <<>>
  /\ StoredParams # getParams(InitialModels, currentModel)

\* C23: a tick that fires while the session is not running does nothing:
\* state, time, step, history, the status and what the page shows stay as
\* they were, and no further tick is requested.
C23_TickWhileNotRunningIsNoOp ==
  [][(TickFires /\ ~running) =>
       /\ UNCHANGED <<session, running, canvasStatus, rafQueue>>
       /\ UNCHANGED <<energyMetricEl, elapsedTimeEl, stepCountEl>>
       /\ Status' = Status]_vars
\* the tick left by a run paused after a step has fired and requested nothing
C23_Witness ==
  /\ ~running
  /\ Status = "Paused"
  /\ Pending = 0
  /\ step >= 1
  /\ history # <<>>
  /\ stepSizeInput > 0
  /\ ~AtHorizon

\* C24: state, time, step and history change only in an executing tick or
\* in a reset or model change, the running flag changes only in run, pause,
\* reset, model change or a completing tick, and a parameter edit (the one
\* handler that writes to the registry) changes none of them.
C24_SessionChangesOnlyByTickOrReset ==
  [][/\ session' # session => ((TickFires /\ TickExecutes) \/ IsReset)
     /\ running' # running =>
          (RunClick \/ PauseClick \/ IsReset \/ (TickFires /\ TickCompletes))
     /\ models' # models => UNCHANGED <<session, running>>]_vars
\* a parameter of a run that has taken a step holds an edited value, and the
\* run goes on
C24_Witness ==
  /\ models[currentModel] # InitialModels[currentModel]
  /\ running
  /\ step >= 1
  /\ state # InitialModels[currentModel].state
  /\ energyMetricEl = updateMetric(models, currentModel, state)

\* C25: whenever the running flag is set, between any two handlers, at least
\* one tick callback is pending (requested, or waiting in the frame that is
\* being served), so a running session is never left without a tick.
C25_RunningHasPendingTick == running => Pending >= 1
\* a running session whose only pending callback was requested by a tick that
\* executed a step
C25_Witness ==
  /\ running
  /\ Pending = 1
  /\ frameBatch = <<>>
  /\ step >= 1
  /\ pushLog # <<>>
  /\ ~rafQueue[1].stale

\* C26: in every reachable state the history holds min(step, 800) samples,
\* and when it is not empty the time of its last sample is the elapsed time
\* of the session.
C26_HistoryTracksStepAndTime ==
  /\ Len(history) = Min(step, HistoryLimit)
  /\ history # <<>> => history[Len(history)].t = time
\* a session that has taken more steps than the history holds
C26_Witness ==
  /\ step > HistoryLimit
  /\ Len(history) = HistoryLimit
  /\ history[HistoryLimit].t = time
  /\ DLess(DZero, time)

\* no link joins a node to itself
NoSelfLoop == \A i \in DOMAIN connections : connections[i].from # connections[i].to
\* the step appends the link from the pending source to the node clicked
\* now, a different node, in connect mode
LinkCreated ==
  /\ connectMode
  /\ connectStart # Null
  /\ selectedNode' # connectStart
  /\ connections' = Append(connections, [from |-> connectStart, to |-> selectedNode'])
  /\ connectStart' = Null

\* C27: the list of connections grows only in connect mode, by a click on a
\* node other than the pending source (the node clicked first), with the
\* link directed from the source to the node clicked second; a click on the
\* pending source itself cancels and adds nothing; and no connection ever
\* has from = to.
C27_LinksJoinTwoDifferentNodes ==
  /\ []NoSelfLoop
  /\ [][/\ connections' # connections => (connections' = <<>> \/ LinkCreated)
        /\ (connectMode /\ connectStart = Null
              /\ \E nodeId \in INITIAL_COMPONENTS : NodeClick(nodeId))
             => (connectStart' = selectedNode' /\ connections' = connections)
        /\ (connectMode /\ NodeClick(connectStart))
             => (connectStart' = Null /\ connections' = connections)]_vars
\* two clicks in connect mode have added a link that is not one of the
\* initial diagram
C27_Witness ==
  /\ connections # <<>>
  /\ \A i \in DOMAIN INITIAL_CONNECTIONS :
       INITIAL_CONNECTIONS[i] # connections[Len(connections)]
  /\ connectMode
  /\ connectStart = Null
  /\ activity = "Connection created."
  /\ selectedNode = connections[Len(connections)].to

\* C28: a pending connection source exists only while connect mode is on.
C28_PendingSourceOnlyInConnectMode == connectStart # Null => connectMode
\* a source is pending: the node clicked first in connect mode
C28_Witness ==
  /\ connectStart # Null
  /\ connectMode
  /\ selectedNode = connectStart
  /\ Len(connections) < Len(INITIAL_CONNECTIONS)

====
